---- MODULE Spec2Model ----
(***************************************************************************)
(* A model of the two announce loops of ratioboss.                         *)
(*                                                                         *)
(*   "gated"  the peer-gated loop of src/main.go: a plain for-loop that    *)
(*            sleeps between announces and stalls on low peer counts;      *)
(*   "aware"  the interrupt-aware loop of src/unnamed/part_001 (the second *)
(*            program of that file, lines 173-325): announce() driven by a *)
(*            select over a timer channel and an interrupt channel.        *)
(*                                                                         *)
(* Time is discrete; one unit of the clock stands for 10 seconds.  Rates   *)
(* are bytes per unit of time.  The transport (tracker.Announce) is an     *)
(* external call: it is in flight between the action that sends a request  *)
(* and the action that handles its outcome, and the clock may advance and  *)
(* an interrupt may be delivered meanwhile.                                *)
(***************************************************************************)
EXTENDS Integers, Sequences, FiniteSets, TLC

\* ---------------------------------------------------------------- bounds
MaxTime == 5          \* the clock runs over 0..MaxTime
MaxAnnounces == 4     \* requests sent in one session

\* ------------------------------------------------------ program constants
startRetrySleep == 1  \* main.go:112, 10 * time.Second
retryInterval == 3    \* part_001:191, 30 * time.Second
noiseTenths == 3      \* part_001:190, noise = 0.3
maxDurationUnits == 1000  \* main.go:79, time.Since(time.Time{}): beyond every clock reading

\* ------------------------------------------------------- input domains
Programs == {"gated", "aware"}
Sizes == {3}                    \* mi.Info.TotalLength() / size
Speeds == {-1, 2}               \* every non-zero speed passes the startup check
Margins == {50}                 \* -dm / -um, in percent
Intervals == {0, 2}             \* resp.Interval, in units of time
PeerCounts == {0, 1}            \* resp.Seeders, resp.Leechers
MinPeers == {1}                 \* -s / -l (15 by default; scaled to PeerCounts)

Started == "started"
None == "none"
Completed == "completed"
Stopped == "stopped"
Events == {Started, None, Completed, Stopped}

ZeroTime == -1                  \* the zero time.Time (IsZero)
Nil == -1                       \* a nil channel

VARIABLES
    prog,               \* which of the two programs runs
    now,                \* wall clock
    pc,                 \* position of the main goroutine
    log,                \* the event and the outcome of every call of tracker.Announce
    req,                \* the request of the latest call of tracker.Announce
    \* src/main.go
    totalLength, baseDownSpeedByte, baseUpSpeedByte, downMargin, upMargin,
    minSeeders, minLeechers,
    curDownSpeedByte, curUpSpeedByte, prevRespTime, started, downloaded, uploaded,
    wake,               \* end of the current time.Sleep
    \* src/unnamed/part_001
    size, downSpeed, upSpeed,
    complete, stall, down, up, interval, lastResp,
    event,              \* announce's parameter, as overwritten at line 272
    ret,                \* where announce returns to: "loop" (line 257) or "exit" (line 260)
    interruptCh,        \* signals buffered in the interrupt channel (capacity 1)
    \* both programs
    resp,               \* main.go:100 and part_001:288: what the latest call returned
    \* history
    returnedAt,         \* when the latest call of tracker.Announce returned
    stalled,            \* main.go:133-136: the latest response was below the peer minimums
    dueAtDelivery,      \* the buffered interrupt arrived at the select with the timer due
    \* src/vendor/github.com/sprt/byt/byt.go
    bytPc,              \* "idle", or the stage of a conversion: "input", "text", "parsed"
    bytN,               \* the Size that is rendered
    bytFrom,            \* what produced bytText: "binary", "string" or "flag"
    bytPrec,            \* the precision of the verb, as in %.2f
    bytText,            \* the text, a sequence of characters
    bytParsed           \* what parseCLI returned for bytText

config == <<totalLength, baseDownSpeedByte, baseUpSpeedByte, downMargin, upMargin,
            minSeeders, minLeechers>>
gatedVars == <<curDownSpeedByte, curUpSpeedByte, prevRespTime, started, downloaded,
               uploaded, wake>>
awareConfig == <<size, downSpeed, upSpeed>>
awareVars == <<complete, stall, down, up, interval, lastResp, event, ret, interruptCh>>
history == <<stalled, dueAtDelivery>>
callVars == <<resp, returnedAt>>
bytVars == <<bytPc, bytN, bytFrom, bytPrec, bytText, bytParsed>>
progVars == <<prog, now, pc, log, req, config, gatedVars, awareConfig, awareVars, history,
              callVars>>
vars == <<progVars, bytVars>>

\* ------------------------------------------------------------- helpers
Min(a, b) == IF a < b THEN a ELSE b
Abs(n) == IF n < 0 THEN -n ELSE n
Last(s) == s[Len(s)]

\* A request as built at main.go:89-97 and part_001:279-287.
Request(ev, dl, total, ul) ==
    [event |-> ev, downloaded |-> dl, left |-> total - dl, uploaded |-> ul]

\* The session's announces in order: the event of each request handed to
\* tracker.Announce and how the call ended.
Sent(ev) == Append(log, [event |-> ev, result |-> "inflight"])
Returned(res) == [log EXCEPT ![Len(log)].result = res]

\* tracker.AnnounceResponse, as far as the programs read it.
Responses == [interval : Intervals, seeders : PeerCounts, leechers : PeerCounts]

\* The zero response, which a failed call leaves in resp.
ZeroResponse == [interval |-> 0, seeders |-> 0, leechers |-> 0]

\* A deadline set to the retry interval whatever delay is asked for.
AfterRetryOnly(d) == now + retryInterval

\* time.After(d) and time.Sleep(d), part_001:297, 307 and main.go:114, 155: the
\* time at which the timer fires or the sleep ends.
After(d) == now + d

\* ------------------------------------------------------------------------
\* The interrupt-aware loop, src/unnamed/part_001 lines 218-319
\* ------------------------------------------------------------------------

\* time.Since(t).Seconds(), main.go:79 and part_001:269.  For the zero Time the
\* subtraction saturates at the largest Duration (about 292 years), which
\* maxDurationUnits stands for.
Since(t) == IF t = ZeroTime THEN maxDurationUnits ELSE now - t

\* byt.Size(elapsed * randNoise(n)), part_001:270, 275 and 310-312: randNoise(n)
\* is n + u * noise * n for a uniform u in [-1, 1), so the product ranges over
\* [0.7, 1.3) * n * elapsed (mirrored for a negative n) and the conversion to
\* byt.Size truncates toward zero.  The operator is the set of integers the
\* conversion can yield.
NoisyAccrual(elapsed, n) ==
    IF elapsed = 0 \/ n = 0 THEN {0}
    ELSE LET m == Abs(n) * elapsed
             lo == ((10 - noiseTenths) * m) \div 10
             hi == (((10 + noiseTenths) * m + 9) \div 10) - 1
         IN  IF n > 0 THEN lo .. hi ELSE {-k : k \in lo .. hi}

\* part_001:314-319
min(a, b) == IF a < b THEN a ELSE b

\* A variant that leaves the flag as it was, as if it were set only when the
\* Completed announce has been answered.
CompleteDeferred(hit) == complete

\* part_001:272-275: complete after the test of the tick, set before the call.
CompleteAfter(hit) == complete \/ hit

\* announce(ev) up to and including the call of tracker.Announce, part_001:267-288,
\* with the condition of line 268 as a parameter.  returnTo is where main
\* continues when announce returns.
AnnounceWhen(accrue, ev, returnTo) ==
    /\ IF accrue
       THEN \E dn \in NoisyAccrual(Since(lastResp), downSpeed),
               un \in NoisyAccrual(Since(lastResp), upSpeed) :
              LET newDown == min(size, down + dn)
                  hit == newDown = size /\ ~complete
              IN  /\ down' = newDown
                  /\ event' = IF hit THEN Completed ELSE ev
                  /\ complete' = CompleteAfter(hit)
                  /\ up' = up + un
       ELSE /\ event' = ev
            /\ UNCHANGED <<down, up, complete>>
    /\ req' = Request(event', down', size, up')
    /\ log' = Sent(event')
    /\ ret' = returnTo
    /\ pc' = "call"
    /\ UNCHANGED <<stall, interval, lastResp>>

\* A variant of announce that skips the accrual for the Stopped announce.
AnnounceFrozenOnStop(ev, returnTo) ==
    AnnounceWhen(lastResp # ZeroTime /\ ~stall /\ ev # Stopped, ev, returnTo)

\* part_001:267-288: announce accrues whenever an earlier attempt has returned
\* and the session is not stalled.
AnnounceBegin(ev, returnTo) ==
    AnnounceWhen(lastResp # ZeroTime /\ ~stall, ev, returnTo)

\* part_001:248
AwareStart ==
    /\ prog = "aware" /\ pc = "start"
    /\ Len(log) < MaxAnnounces
    /\ AnnounceBegin(Started, "loop")
    /\ UNCHANGED <<callVars, history, bytVars, prog, now, config, gatedVars, awareConfig, interruptCh>>

\* The timer channel holds a value once its deadline has passed.
TimerReady == interval # Nil /\ now >= interval

\* part_001:251-253: the select receives from interval and calls announce(None).
\* When both channels are ready the select picks either case.
AwareSelectTimer ==
    /\ prog = "aware" /\ pc = "select"
    /\ TimerReady
    /\ Len(log) < MaxAnnounces
    /\ AnnounceBegin(None, "loop")
    /\ UNCHANGED <<callVars, history, bytVars, prog, now, config, gatedVars, awareConfig, interruptCh>>

\* part_001:254-259: the select receives from interrupt, the loop is left and
\* announce(Stopped) is called.
AwareSelectInterrupt ==
    /\ prog = "aware" /\ pc = "select"
    /\ interruptCh = 1
    /\ interruptCh' = 0
    /\ dueAtDelivery' = FALSE
    /\ AnnounceBegin(Stopped, "exit")
    /\ UNCHANGED <<callVars, stalled, bytVars, prog, now, config, gatedVars, awareConfig>>

\* A variant in which main goes back to the select after every announce.
AfterAnnounceLoop == "select"

\* Where main continues after announce returns: the select, or the end of main.
AfterAnnounce == IF ret = "loop" THEN "select" ELSE "done"

\* part_001:288-289 and 301-307: tracker.Announce returned a response.
AwareAnnounceOk ==
    /\ prog = "aware" /\ pc = "call"
    /\ \E r \in Responses :
         /\ r.seeders = 0 /\ r.leechers = 0     \* the peer counts are not read
         /\ resp' = r
         /\ interval' = IF event = Stopped THEN Nil ELSE After(r.interval)
    /\ lastResp' = now
    /\ returnedAt' = now
    /\ log' = Returned("ok")
    /\ pc' = AfterAnnounce
    /\ UNCHANGED <<history, req, bytVars, prog, now, config, gatedVars, awareConfig,
                   complete, stall, down, up, event, ret, interruptCh>>

\* A variant of the error path that arms no timer.
RetryTimerNone == Nil

\* part_001:297: interval = time.After(retryInterval)
RetryTimer == After(retryInterval)

\* part_001:288-299: tracker.Announce returned an error.
AwareAnnounceErr ==
    /\ prog = "aware" /\ pc = "call"
    /\ interval' = IF event = Stopped THEN Nil ELSE RetryTimer
    /\ lastResp' = now
    /\ resp' = ZeroResponse
    /\ returnedAt' = now
    /\ log' = Returned("err")
    /\ pc' = AfterAnnounce
    /\ UNCHANGED <<history, req, bytVars, prog, now, config, gatedVars, awareConfig,
                   complete, stall, down, up, event, ret, interruptCh>>

\* part_001:231-232: the runtime delivers os.Interrupt to the channel of
\* capacity 1 without blocking; a signal that finds the buffer full is dropped.
Interrupt ==
    /\ prog = "aware" /\ pc # "done"
    /\ interruptCh = 0
    /\ interruptCh' = 1
    /\ dueAtDelivery' = (pc = "select" /\ TimerReady)
    /\ UNCHANGED <<callVars, stalled, bytVars, prog, now, pc, log, req, config, gatedVars, awareConfig,
                   complete, stall, down, up, interval, lastResp, event, ret>>

\* The wall clock advances while the program sleeps, waits at the select or
\* waits for the transport.
Pass ==
    /\ pc # "done"
    /\ now < MaxTime
    /\ now' = now + 1
    /\ UNCHANGED <<callVars, history, bytVars, prog, pc, log, req, config, gatedVars, awareConfig, awareVars>>

\* ------------------------------------------------------------------------
\* The peer-gated loop, src/main.go lines 72-161
\* ------------------------------------------------------------------------

\* A variant of randMargin that leaves the margin out: any offset up to n itself.
randMarginUnscaled(n, pct) == (-Abs(n)) .. Abs(n)

\* int64(randMargin(n, margin)), main.go:138, 140 and 159-161: randMargin is
\* u * margin * n for a uniform u in [-1, 1) and the conversion truncates
\* toward zero.  pct is the margin in percent.  The operator is the set of
\* integers the conversion can yield.
randMargin(n, pct) ==
    LET c == pct * n
        a == Abs(c)
        whole == a \div 100
        below == ((a + 99) \div 100) - 1
    IN  IF c > 0 THEN (-whole) .. below
        ELSE IF c < 0 THEN (-below) .. whole
        ELSE {0}

\* A variant of the accrual that multiplies the nominal speeds instead of the
\* current ones.
AccruedFromBase ==
    LET sincePrevResp == Since(prevRespTime)
        dl == Min(downloaded + baseDownSpeedByte * sincePrevResp, totalLength)
        ul == uploaded + baseUpSpeedByte * sincePrevResp
    IN  [downloaded |-> dl, uploaded |-> ul,
         event |-> IF dl = totalLength THEN Completed ELSE None]

\* main.go:78-87: progress accrued at the top of an iteration, and the event.
Accrued ==
    LET sincePrevResp == Since(prevRespTime)
        dl == Min(downloaded + curDownSpeedByte * sincePrevResp, totalLength)
        ul == uploaded + curUpSpeedByte * sincePrevResp
    IN  [downloaded |-> dl, uploaded |-> ul,
         event |-> IF dl = totalLength THEN Completed ELSE None]

\* main.go:73-107 and 117-122: the top of an iteration up to the call of
\* tracker.Announce.  The iteration starts when main starts and whenever the
\* sleep of line 155 is over.
GatedTop ==
    /\ prog = "gated"
    /\ pc = "top" \/ (pc = "sleep" /\ now >= wake)
    /\ Len(log) < MaxAnnounces
    /\ IF started
       THEN /\ downloaded' = Accrued.downloaded
            /\ uploaded' = Accrued.uploaded
            /\ req' = Request(Accrued.event, downloaded', totalLength, uploaded')
            /\ log' = Sent(Accrued.event)
            /\ pc' = "call"
       ELSE /\ UNCHANGED <<downloaded, uploaded>>
            /\ req' = Request(Started, downloaded, totalLength, uploaded)
            /\ log' = Sent(Started)
            /\ pc' = "startCall"
    /\ UNCHANGED <<callVars, history, bytVars, prog, now, config, curDownSpeedByte, curUpSpeedByte, prevRespTime,
                   started, wake, awareConfig, awareVars>>

\* main.go:131-155: the speeds are set from a response, the session is marked
\* started, the response time is recorded and the sleep begins.
HandleResponse(r) ==
    /\ IF r.seeders < minSeeders \/ r.leechers < minLeechers
       THEN /\ curDownSpeedByte' = 0
            /\ curUpSpeedByte' = 0
            /\ stalled' = TRUE
       ELSE /\ stalled' = FALSE
            /\ \E m \in randMargin(baseUpSpeedByte, upMargin) :
                 curUpSpeedByte' = baseUpSpeedByte + m
            /\ IF totalLength - downloaded > 0
               THEN \E m \in randMargin(baseDownSpeedByte, downMargin) :
                      curDownSpeedByte' = baseDownSpeedByte + m
               ELSE curDownSpeedByte' = 0
    /\ started' = TRUE
    /\ prevRespTime' = now
    /\ resp' = r
    /\ returnedAt' = now
    /\ wake' = After(r.interval)
    /\ pc' = "sleep"
    /\ log' = Returned("ok")
    /\ UNCHANGED <<dueAtDelivery, req, bytVars, prog, now, config, downloaded, uploaded, awareConfig, awareVars>>

\* main.go:105-111: the Started announce succeeded.
GatedStartOk ==
    /\ prog = "gated" /\ pc = "startCall"
    /\ \E r \in Responses : HandleResponse(r)

\* main.go:112-114: the Started announce failed; sleep before the retry.
GatedStartErr ==
    /\ prog = "gated" /\ pc = "startCall"
    /\ log' = Returned("err")
    /\ wake' = After(startRetrySleep)
    /\ resp' = ZeroResponse
    /\ returnedAt' = now
    /\ pc' = "startSleep"
    /\ UNCHANGED <<history, req, bytVars, prog, now, config, curDownSpeedByte, curUpSpeedByte, prevRespTime,
                   started, downloaded, uploaded, awareConfig, awareVars>>

\* main.go:105-107: the sleep is over and the same request is sent again.
GatedStartRetry ==
    /\ prog = "gated" /\ pc = "startSleep"
    /\ now >= wake
    /\ Len(log) < MaxAnnounces
    /\ log' = Sent(req.event)
    /\ pc' = "startCall"
    /\ UNCHANGED <<callVars, history, req, bytVars, prog, now, config, gatedVars, awareConfig, awareVars>>

\* main.go:122 and 126-128: a periodic announce succeeded.
GatedAnnounceOk ==
    /\ prog = "gated" /\ pc = "call"
    /\ \E r \in Responses : HandleResponse(r)

\* main.go:122-125 and 150-155: a periodic announce failed.  hasResp is false,
\* respTime is still the zero Time and resp is the zero response, so the sleep
\* lasts resp.Interval = 0.
GatedAnnounceErr ==
    /\ prog = "gated" /\ pc = "call"
    /\ log' = Returned("err")
    /\ started' = TRUE
    /\ prevRespTime' = ZeroTime
    /\ resp' = ZeroResponse
    /\ returnedAt' = now
    /\ wake' = After(resp'.interval)
    /\ pc' = "sleep"
    /\ UNCHANGED <<history, req, bytVars, prog, now, config, curDownSpeedByte, curUpSpeedByte,
                   downloaded, uploaded, awareConfig, awareVars>>

\* ------------------------------------------------------------------------
\* Sizes as text, src/vendor/github.com/sprt/byt/byt.go
\* ------------------------------------------------------------------------

\* The largest of the consecutive small sizes that are rendered.
MaxBytes == 40

\* byt.go:23-26 and 39-40
Byt == 1
Kibibyte == 1024
Mebibyte == 1048576
Kilobyte == 1000
Megabyte == 1000000

\* The sizes that are rendered: the small ones, and sizes around the unit
\* boundaries.
BytInputs == (0 .. MaxBytes) \cup {1023, 1024, 1025, 1536, 1048575, 1048576, 5000000}

\* The precisions of the verbs: %.0f, and %.2f as the programs log sizes.
BytPrecisions == {0, 2}

\* What a user types for -down and -up (byt.go:17-20).
FlagTexts == {<<"5", "M">>, <<"2", "M", "B">>, <<"1", ".", "5", "k">>, <<"1", "2">>,
              <<"x">>}

Digits == <<"0", "1", "2", "3", "4", "5", "6", "7", "8", "9">>
IsDigit(c) == \E d \in 1 .. 10 : Digits[d] = c
DigitChar(d) == Digits[d + 1]
DigitValue(c) == (CHOOSE d \in 1 .. 10 : Digits[d] = c) - 1

RECURSIVE Pow10(_)
Pow10(p) == IF p = 0 THEN 1 ELSE 10 * Pow10(p - 1)

\* strconv.FormatInt(n, 10), byt.go:106
RECURSIVE FormatInt(_)
FormatInt(n) ==
    IF n < 0 THEN <<"-">> \o FormatInt(-n)
    ELSE IF n < 10 THEN <<DigitChar(n)>>
    ELSE FormatInt(n \div 10) \o <<DigitChar(n % 10)>>

\* The k rightmost decimal digits of n, with leading zeros.
RECURSIVE FixedDigits(_, _)
FixedDigits(n, k) ==
    IF k = 0 THEN <<>> ELSE FixedDigits(n \div 10, k - 1) \o <<DigitChar(n % 10)>>

\* byt.go:54-62, the symbols of the binary units up to MiB.
symbols ==
    (Byt :> <<"B">>) @@ (Kibibyte :> <<"K", "i", "B">>) @@ (Mebibyte :> <<"M", "i", "B">>)

\* byt.go:72-86, the suffixes up to mega.
suffixes ==
    (<<"k">> :> Kibibyte) @@ (<<"m">> :> Mebibyte) @@
    (<<"k", "b">> :> Kilobyte) @@ (<<"m", "b">> :> Megabyte)

\* byt.go:110-113: the loop of format, which yields the unit u.
RECURSIVE formatUnit(_, _, _)
formatUnit(ss, u, un) ==
    IF ss >= un THEN formatUnit(ss \div un, u * un, un) ELSE u

\* strconv.AppendFloat(b, s / u, 'f', prec, 64), byt.go:130: the quotient in
\* units of 10^-prec, rounded to nearest, ties to even.  For a power of two u
\* the quotient is exact in float64, so the rounding is that of the exact value.
Rounded(s, u, prec) ==
    LET x == (s % u) * Pow10(prec)
        d == (s \div u) * Pow10(prec) + (x \div u)
        rem == x % u
    IN  IF 2 * rem > u THEN d + 1
        ELSE IF 2 * rem = u THEN d + (d % 2)
        ELSE d

\* byt.go:109-134: the text that Format writes for the size s in the units of
\* un with precision prec: the number, a space, the symbol of the unit.
Format(s, un, prec) ==
    LET u == formatUnit(s, Byt, un)
        r == Rounded(s, u, prec)
        whole == FormatInt(r \div Pow10(prec))
        frac == IF prec = 0 THEN <<>> ELSE <<".">> \o FixedDigits(r % Pow10(prec), prec)
    IN  whole \o frac \o <<" ">> \o symbols[u]

\* strings.ToLower, byt.go:139
LowerChar(c) ==
    CASE c = "B" -> "b" [] c = "K" -> "k" [] c = "M" -> "m" [] OTHER -> c
ToLower(s) == [i \in 1 .. Len(s) |-> LowerChar(s[i])]

\* strings.HasSuffix and strings.TrimSuffix, byt.go:141-142
HasSuffix(s, x) == Len(s) >= Len(x) /\ SubSeq(s, Len(s) - Len(x) + 1, Len(s)) = x
TrimSuffix(s, x) == SubSeq(s, 1, Len(s) - Len(x))

RECURSIVE DigitsValue(_)
DigitsValue(ds) ==
    IF ds = <<>> THEN 0
    ELSE 10 * DigitsValue(SubSeq(ds, 1, Len(ds) - 1)) + DigitValue(ds[Len(ds)])

\* strconv.ParseFloat on plain decimal texts: an optional sign, digits and at
\* most one point, with a digit somewhere; every character must belong to the
\* number.  The value is num / 10^scale.  (Exponents, hexadecimal forms, inf
\* and nan are not among the texts used here.)
ParseDecimal(s) ==
    LET signed == Len(s) > 0 /\ s[1] \in {"+", "-"}
        body == IF signed THEN Tail(s) ELSE s
        points == {i \in 1 .. Len(body) : body[i] = "."}
        ds == SelectSeq(body, IsDigit)
        ok == /\ \A i \in 1 .. Len(body) : IsDigit(body[i]) \/ body[i] = "."
              /\ Cardinality(points) <= 1
              /\ Len(ds) >= 1
    IN  IF ok
        THEN [ok |-> TRUE,
              num |-> IF signed /\ s[1] = "-" THEN -DigitsValue(ds) ELSE DigitsValue(ds),
              scale |-> IF points = {} THEN 0
                        ELSE Len(body) - (CHOOSE i \in points : TRUE)]
        ELSE [ok |-> FALSE, num |-> 0, scale |-> 0]

\* The leading characters of s that can belong to a number.
RECURSIVE NumericPrefix(_)
NumericPrefix(s) ==
    IF s # <<>> /\ (IsDigit(s[1]) \/ s[1] = ".")
    THEN <<s[1]>> \o NumericPrefix(Tail(s))
    ELSE <<>>

\* A variant of parseFloat that reads the number at the start of the text and
\* ignores what follows it.
parseFloatLenient(s) == ParseDecimal(NumericPrefix(s))

\* byt.go:156-162 (and 149-152)
parseFloat(s) == ParseDecimal(s)

\* Size(x * float64(size)), byt.go:146 and 153: the product, truncated toward
\* zero.
Scaled(x, sz) ==
    LET p == x.num * sz
    IN  IF p >= 0 THEN p \div Pow10(x.scale) ELSE -((-p) \div Pow10(x.scale))

\* The result of parseCLI: a size, or an error.
Parsed(x, sz) ==
    IF x.ok THEN [ok |-> TRUE, value |-> Scaled(x, sz)] ELSE [ok |-> FALSE, value |-> 0]

\* byt.go:138-154: the results that parseCLI(v) can return.  The loop ranges
\* over a map, so any suffix that matches can be the one that is tried.
parseCLI(v) ==
    LET s == ToLower(v)
        matching == {x \in DOMAIN suffixes : HasSuffix(s, x)}
    IN  IF matching # {}
        THEN {Parsed(parseFloat(TrimSuffix(s, x)), suffixes[x]) : x \in matching}
        ELSE {Parsed(parseFloat(s), Byt)}

\* No conversion is under way.
BytIdle ==
    /\ bytPc = "idle" /\ bytN = 0 /\ bytFrom = "none" /\ bytPrec = 0
    /\ bytText = <<>> /\ bytParsed = [ok |-> FALSE, value |-> 0]

\* A size is about to be rendered.
InitByt ==
    /\ bytPc = "input" /\ bytN \in BytInputs /\ bytFrom = "none" /\ bytPrec = 0
    /\ bytText = <<>> /\ bytParsed = [ok |-> FALSE, value |-> 0]

\* byt.go:88-90 and 123-134: the size is written with a verb such as %.2f
\* through Binary().
BytBinary ==
    /\ bytPc = "input"
    /\ \E prec \in BytPrecisions :
         /\ bytPrec' = prec
         /\ bytText' = Format(bytN, Kibibyte, prec)
    /\ bytFrom' = "binary"
    /\ bytPc' = "text"
    /\ UNCHANGED <<bytN, bytParsed, progVars>>

\* byt.go:105-107: the size is written through String().
BytString ==
    /\ bytPc = "input"
    /\ bytText' = FormatInt(bytN)
    /\ bytFrom' = "string"
    /\ bytPc' = "text"
    /\ UNCHANGED <<bytN, bytPrec, bytParsed, progVars>>

\* The text is a flag value typed by the user.
BytFlag ==
    /\ bytPc = "input"
    /\ bytText' \in FlagTexts
    /\ bytFrom' = "flag"
    /\ bytPc' = "text"
    /\ UNCHANGED <<bytN, bytPrec, bytParsed, progVars>>

\* byt.go:96-103: Set parses the text.
BytSet ==
    /\ bytPc = "text"
    /\ bytParsed' \in parseCLI(bytText)
    /\ bytPc' = "parsed"
    /\ UNCHANGED <<bytN, bytFrom, bytPrec, bytText, progVars>>

\* ------------------------------------------------------------------------
\* The two programs
\* ------------------------------------------------------------------------

InitCommon ==
    /\ now = 0
    /\ log = <<>>
    /\ req = Request(None, 0, 0, 0)
    \* main.go:16-29
    /\ curDownSpeedByte = 0 /\ curUpSpeedByte = 0
    /\ prevRespTime = ZeroTime
    /\ started = FALSE
    /\ downloaded = 0 /\ uploaded = 0
    /\ wake = 0
    \* part_001:194-205
    /\ complete = FALSE /\ stall = FALSE
    /\ down = 0 /\ up = 0
    /\ interval = Nil
    /\ lastResp = ZeroTime
    /\ event = None
    /\ ret = "loop"
    /\ interruptCh = 0
    /\ stalled = FALSE
    /\ dueAtDelivery = FALSE
    /\ resp = ZeroResponse
    /\ returnedAt = ZeroTime

\* main.go:45-70: the flags are parsed, both speeds are checked to be non-zero
\* and the torrent is loaded.
InitGated ==
    /\ prog = "gated" /\ pc = "top"
    /\ totalLength \in Sizes
    /\ baseDownSpeedByte \in Speeds /\ baseUpSpeedByte \in Speeds
    /\ baseDownSpeedByte # 0 /\ baseUpSpeedByte # 0
    /\ downMargin \in Margins /\ upMargin \in Margins
    /\ minSeeders \in MinPeers /\ minLeechers \in MinPeers
    /\ size = 0 /\ downSpeed = 0 /\ upSpeed = 0

\* part_001:218-246
InitAware ==
    /\ prog = "aware" /\ pc = "start"
    /\ size \in Sizes
    /\ downSpeed \in Speeds /\ upSpeed \in Speeds
    /\ downSpeed # 0 /\ upSpeed # 0
    /\ totalLength = 0 /\ baseDownSpeedByte = 0 /\ baseUpSpeedByte = 0
    /\ downMargin = 0 /\ upMargin = 0
    /\ minSeeders = 0 /\ minLeechers = 0

Init == InitCommon /\ (InitGated \/ InitAware) /\ BytIdle

Next ==
    \/ GatedTop
    \/ GatedStartOk
    \/ GatedStartErr
    \/ GatedStartRetry
    \/ GatedAnnounceOk
    \/ GatedAnnounceErr
    \/ AwareStart
    \/ AwareSelectTimer
    \/ AwareSelectInterrupt
    \/ AwareAnnounceOk
    \/ AwareAnnounceErr
    \/ Interrupt
    \/ Pass

Spec == Init /\ [][Next]_vars

\* The conversions of package byt, applied to every size of BytInputs.
NextByt ==
    \/ BytBinary
    \/ BytString
    \/ BytFlag
    \/ BytSet

\* The program has not started; a size is about to be rendered.
InitSizes == InitCommon /\ InitAware /\ InitByt

SpecByt == InitSizes /\ [][NextByt]_vars

\* The interrupt-aware program on its own.
NextAware ==
    \/ AwareStart
    \/ AwareSelectTimer
    \/ AwareSelectInterrupt
    \/ AwareAnnounceOk
    \/ AwareAnnounceErr
    \/ Interrupt
    \/ Pass

InitLive == InitCommon /\ InitAware /\ BytIdle

\* The interrupt-aware program under the scheduling it runs with: main reaches
\* its first announce, every call of tr.Announce returns (with a response or an
\* error), and a select whose interrupt case is ready again and again
\* eventually takes it.
LiveSpec ==
    /\ InitLive
    /\ [][NextAware]_vars
    /\ WF_vars(AwareStart)
    /\ WF_vars(AwareAnnounceOk \/ AwareAnnounceErr)
    /\ SF_vars(AwareSelectInterrupt)

TypeOK ==
    /\ prog \in Programs
    /\ now \in 0 .. MaxTime
    /\ pc \in {"top", "startCall", "startSleep", "call", "sleep", "start", "select", "done"}
    /\ interruptCh \in 0 .. 1
    /\ Len(log) <= MaxAnnounces + 1

\* ------------------------------------------------------------------------
\* Claims
\* ------------------------------------------------------------------------

Indices == 1 .. Len(log)
SentWith(ev) == {i \in Indices : log[i].event = ev}

\* A Started announce has succeeded before the i-th announce was sent.
StartedAckedBefore(i) ==
    \E j \in 1 .. (i - 1) : log[j].event = Started /\ log[j].result = "ok"

\* C1: in both loops no periodic announce (None or Completed) is sent until a
\* Started announce has succeeded; while the transport keeps failing during
\* startup the engine only re-sends Started.  (The Stopped announce that an
\* operator interrupt forces is left aside here.)
C1_StartupGating ==
    \A i \in Indices :
        log[i].event \in {None, Completed} => StartedAckedBefore(i)

\* The announce in flight, or the latest one, was begun by the interrupt
\* branch of the select (part_001:254-259).
Terminal == prog = "aware" /\ ret = "exit"

\* C2: in the interrupt-aware loop the announce that follows the interrupt
\* branch carries the event Stopped whatever the session state, also when
\* downloaded reaches totalSize in that final tick while complete is false.
C2_TerminalIsStopped ==
    Terminal => req.event = Stopped /\ Last(log).event = Stopped

\* No call of tracker.Announce has failed so far.
NoFailure == \A i \in Indices : log[i].result # "err"

\* C3: in both loops at most one announce of a session carries Completed, the
\* tick at which downloaded first equals totalSize; later ticks carry None.
\* (Stated for the sessions whose announces all succeed, which is enough to
\* decide it.)
C3_CompletedAtMostOnce == NoFailure => Cardinality(SentWith(Completed)) <= 1

\* A step in which the select takes the timer case and announce(None) is sent.
TimerStep == prog = "aware" /\ pc = "select" /\ pc' = "call" /\ ret' = "loop"

\* C4: in the interrupt-aware loop, once the interrupt has been delivered to
\* the channel while the engine waits at the select with the timer due, the
\* timer case is not taken any more: no further None announce is issued.
C4_NoTickAfterInterrupt ==
    [][(interruptCh = 1 /\ dueAtDelivery) => ~TimerStep]_vars

\* C5: in the interrupt-aware loop the terminal announce is attempted once,
\* and when main ends, after a success as after a failure, no timer is left
\* scheduled (interval is nil) and no call is in flight.
C5_TerminalLeavesNoTimer ==
    (prog = "aware" /\ pc = "done") =>
        /\ interval = Nil
        /\ Last(log).result # "inflight"

\* A step in which the select takes the interrupt case and announce(Stopped)
\* runs up to its transport call.
TerminalStep == prog = "aware" /\ pc = "select" /\ pc' = "call" /\ ret' = "exit"

WithinNoise(d, elapsed, n) ==
    IF elapsed = 0 THEN d = 0
    ELSE /\ (n > 0 => d >= 0) /\ (n < 0 => d <= 0)
         /\ (10 - noiseTenths) * Abs(n) * elapsed - 10 < 10 * Abs(d)
         /\ 10 * Abs(d) < (10 + noiseTenths) * Abs(n) * elapsed

PeriodicFailStep ==
    /\ pc = "call"
    /\ Last(log).event \in {None, Completed}
    /\ Len(log') = Len(log) /\ Last(log').result = "err"

\* C7: in both loops a failed periodic announce schedules the next tick after
\* the fixed retry interval, never immediately.
C7_RetryAfterFixedInterval ==
    [][PeriodicFailStep =>
         IF prog = "aware" THEN interval' = now + retryInterval
         ELSE wake' > now]_vars

\* C8: in the peer-gated loop, while the session is stalled, downloaded and
\* uploaded do not change in any step, whatever time has elapsed and whether
\* the announces succeed or fail.
C8_StalledFreezesProgress ==
    [][(prog = "gated" /\ stalled) =>
         (downloaded' = downloaded /\ uploaded' = uploaded)]_vars

\* A stalled session has sent a tick right after a failed announce, so that the
\* elapsed time multiplied into the rates was the saturated one.
C8_Witness ==
    /\ prog = "gated" /\ stalled /\ pc = "call"
    /\ prevRespTime = ZeroTime
    /\ Len(log) >= 3 /\ log[Len(log) - 1].result = "err"

\* C9: in both loops 0 <= downloaded <= totalSize and uploaded >= 0 in every
\* reachable state and in every request sent (left is never negative), for
\* every configuration accepted at startup.
C9_ProgressInRange ==
    /\ 0 <= downloaded /\ downloaded <= totalLength /\ uploaded >= 0
    /\ 0 <= down /\ down <= size /\ up >= 0
    /\ req.downloaded >= 0 /\ req.left >= 0 /\ req.uploaded >= 0

\* C10: in both loops downloaded and uploaded never decrease from one tick to
\* the next, and once downloaded equals totalSize it stays there.
C10_Monotone ==
    [][/\ downloaded' >= downloaded /\ uploaded' >= uploaded
       /\ down' >= down /\ up' >= up
       /\ ((prog = "gated" /\ downloaded = totalLength) => downloaded' = totalLength)
       /\ ((prog = "aware" /\ down = size) => down' = size)]_vars

\* A step in which the call in flight returns an error / a response.
FailStep ==
    /\ Len(log') = Len(log) /\ Len(log) > 0
    /\ Last(log).result = "inflight" /\ Last(log').result = "err"
OkStep ==
    /\ Len(log') = Len(log) /\ Len(log) > 0
    /\ Last(log).result = "inflight" /\ Last(log').result = "ok"

\* C12: in both loops the recorded response time (lastResp, prevRespTime) is
\* that of the last successful announce: a failed call leaves it unchanged.
C12_FailureKeepsResponseTime ==
    [][FailStep => (lastResp' = lastResp /\ prevRespTime' = prevRespTime)]_vars

\* C13: in both loops every successful non-terminal response sets the delay
\* before the next tick to the interval of that response and the recorded
\* response time to the time the response was received.
C13_ResponseSchedulesNextTick ==
    [][(OkStep /\ ~Terminal) =>
         IF prog = "aware"
         THEN interval' = now + resp'.interval /\ lastResp' = now
         ELSE wake' = now + resp'.interval /\ prevRespTime' = now]_vars

\* A periodic announce of the interrupt-aware loop has succeeded with an
\* advertised interval of 2 and the timer is armed 2 after the response.
C13_Witness ==
    /\ prog = "aware" /\ pc = "select" /\ Len(log) >= 2
    /\ Last(log).result = "ok" /\ Last(log).event \in {None, Completed}
    /\ resp.interval = 2 /\ interval = returnedAt + 2 /\ lastResp = returnedAt

\* cur is base plus an offset of at most pct percent of base.
WithinMargin(cur, base, pct) == 100 * Abs(cur - base) <= pct * Abs(base)

\* C14: in the peer-gated loop, after every successful response: with seeders
\* or leechers below their minimum both current rates are zero; otherwise the
\* upload rate is redrawn from the nominal upload rate, and the download rate
\* from the nominal download rate unless downloaded = totalSize, when it is zero.
C14_RatesAfterResponse ==
    [][(prog = "gated" /\ OkStep) =>
         IF resp'.seeders < minSeeders \/ resp'.leechers < minLeechers
         THEN curDownSpeedByte' = 0 /\ curUpSpeedByte' = 0
         ELSE /\ WithinMargin(curUpSpeedByte', baseUpSpeedByte, upMargin)
              /\ IF downloaded = totalLength
                 THEN curDownSpeedByte' = 0
                 ELSE WithinMargin(curDownSpeedByte', baseDownSpeedByte, downMargin)]_vars

\* A response with enough peers has arrived once the download is complete: the
\* download rate is zero and the upload rate is not.
C14_Witness ==
    /\ prog = "gated" /\ pc = "sleep" /\ Last(log).result = "ok"
    /\ resp.seeders >= minSeeders /\ resp.leechers >= minLeechers
    /\ downloaded = totalLength
    /\ curDownSpeedByte = 0 /\ curUpSpeedByte # 0

\* A step that sends an announce: the tick of either loop.
SendStep == Len(log') = Len(log) + 1

\* C16: in both loops the elapsed time multiplied into the rates at a tick
\* never exceeds the wall-clock time since the previous announce attempt
\* returned: the upload accrued at a tick is at most the current rate (with its
\* noise, in the interrupt-aware loop) times that wall-clock time, and nothing
\* accrues before a first attempt has returned.
C16_ElapsedWithinWallClock ==
    [][SendStep =>
         IF returnedAt = ZeroTime
         THEN uploaded' = uploaded /\ up' = up
         ELSE /\ Abs(uploaded' - uploaded)
                   <= Abs(curUpSpeedByte) * (now - returnedAt)
              /\ 10 * Abs(up' - up)
                   <= (10 + noiseTenths) * Abs(upSpeed) * (now - returnedAt)]_vars

\* C17: in the interrupt-aware loop complete is set before the transport call
\* of the Completed announce, so Completed is on the wire at most once whether
\* or not that call fails, a tick after it carries None, and complete never
\* goes back to false.
C17_CompletedNotRetried ==
    [][prog = "aware" =>
         /\ (complete => complete')
         /\ Cardinality({i \in 1..Len(log') : log'[i].event = Completed}) <= 1
         /\ (SendStep /\ complete => event' # Completed)
         /\ (SendStep /\ event' = Completed => complete')]_vars

\* The Completed announce failed and a later tick carried None.
C17_Witness ==
    /\ prog = "aware" /\ complete
    /\ \E i \in Indices, j \in Indices :
         /\ i < j
         /\ log[i].event = Completed /\ log[i].result = "err"
         /\ log[j].event = None

\* The announces whose transport call has not returned, by position in the log.
InFlight == {i \in Indices : log[i].result = "inflight"}

\* C18: in the interrupt-aware loop, whenever main waits at the select a timer
\* is pending (interval is a channel, not nil), since every non-terminal return
\* of announce arms one; main is never waiting with neither a timer nor an
\* announce in flight, and at most one announce is in flight.
C18_TimerOrAnnouncePending ==
    prog = "aware" =>
        /\ (pc = "select" => interval # Nil)
        /\ Cardinality(InFlight) <= 1
        /\ (pc \in {"select", "call"} => (interval # Nil \/ InFlight # {}))
        /\ (InFlight # {} <=> pc = "call")

\* main waits at the select after a failed announce, with the retry timer armed.
C18_Witness ==
    /\ prog = "aware" /\ pc = "select"
    /\ Last(log).result = "err"
    /\ interval = returnedAt + retryInterval
    /\ InFlight = {}

\* C15: in the interrupt-aware loop, when every transport call returns and the
\* select is fair, a delivered interrupt leads to the end of main, and main
\* ends only after the terminal announce, the one made by announce(Stopped)
\* after the loop, has been issued and its call has returned.
C15_InterruptLeadsToExit ==
    /\ (interruptCh = 1) ~> (pc = "done")
    /\ [](pc = "done" =>
            /\ ret = "exit"
            /\ Len(log) >= 2
            /\ Last(log).result \in {"ok", "err"})

\* main has ended after an interrupt that was delivered while a periodic call
\* was in flight or a timer pending; the terminal call has returned.
C15_Witness ==
    /\ prog = "aware" /\ pc = "done" /\ interruptCh = 0
    /\ Len(log) >= 3
    /\ ret = "exit" /\ Last(log).result \in {"ok", "err"}

\* The size of one unit of the last digit shown is u / 10^prec, u being the
\* unit in which s is rendered.
DisplayUnit(s) == formatUnit(s, Byt, Kibibyte)

====
